---- MODULE Spec2Model ----
(***************************************************************************)
(* Material Updater: the lightmap patch engine (src/src/mtbin.rs) and the  *)
(* transcoding orchestrator (src/src/main.rs).                             *)
(*                                                                         *)
(* Byte buffers are sequences of one-character strings, so the literals    *)
(* below are the byte strings of the source, character by character.       *)
(***************************************************************************)
EXTENDS Integers, Sequences, FiniteSets, TLC

VARIABLES
  target,      \* handle_lightmaps: target_version
  material,    \* handle_lightmaps: the CompiledMaterialDefinition being patched
  prev,        \* the material as it was before the latest call
  calls,       \* how many calls have returned
  via,         \* "none", "direct" (handle_lightmaps called) or "gated" (through the pipeline's gate)
  panicked,    \* an unwrap() of handle_lightmaps panicked
  log,         \* the lines the latest call logged
  opts,        \* main: the parsed Options
  input,       \* the contents of the input path when the process starts
  fs,          \* the file system: path -> contents
  dest_opened, \* File::create(output_filename) has been called
  pc,          \* where main is
  exit,        \* how main ended: "Running", "Ok", "Err" or "Panic"
  tmp_file,    \* what the scratch file holds
  index,       \* zip_update: entries of the input archive dealt with
  translated_shaders,
  warnings,
  output_zip,  \* zip_update: the entries the ZipWriter holds
  report       \* zip_update: what the final println!s reported

patchVars == <<target, material, prev, calls, via, panicked, log>>
mainVars == <<opts, input, fs, dest_opened, pc, exit, tmp_file, index,
              translated_shaders, warnings, output_zip, report>>
vars == <<patchVars, mainVars>>

----------------------------------------------------------------------------
(* Bounds *)

\* the number of fragments an input shader text is concatenated from
MaxFrags == 3

\* the number of entries of an input archive
MaxEntries == 3

----------------------------------------------------------------------------
(* mtbin.rs: the version catalog *)

MVersion == {"V26_10_20", "V1_21_110", "V1_21_20", "V1_20_80", "V1_19_60", "V1_18_30"}

as_version(v) ==
  CASE v = "V26_10_20" -> "V1_21_110"
    [] v = "V1_21_110" -> "V1_21_110"
    [] v = "V1_21_20"  -> "V1_20_80"
    [] v = "V1_20_80"  -> "V1_21_20"
    [] v = "V1_19_60"  -> "V1_19_60"
    [] v = "V1_18_30"  -> "V1_18_30"

----------------------------------------------------------------------------
(* mtbin.rs: the byte strings of handle_lightmaps *)

\* b"void main" (mtbin.rs:43)
pattern ==
  <<
    "v", "o", "i", "d", " ", "m", "a", "i", "n"
  >>

\* the byte string of mtbin.rs:50-52
replace_26_10_20 ==
  <<
    "\n", "#", "d", "e", "f", "i", "n", "e", " ", "a", "_", "t", "e", "x", "c", "o", "o",
    "r", "d", "1", " ", "f", "r", "a", "c", "t", "(", "a", "_", "t", "e", "x", "c", "o",
    "o", "r", "d", "1", ".", "y", " ", "*", " ", "v", "e", "c", "2", "(", "2", "5", "6",
    ".", "0", ",", " ", "4", "0", "9", "6", ".", "0", ")", ")", "\n", "v", "o", "i", "d",
    " ", "m", "a", "i", "n"
  >>

\* the byte string of mtbin.rs:54-56
replace_1_21_110 ==
  <<
    "\n", "#", "d", "e", "f", "i", "n", "e", " ", "a", "_", "t", "e", "x", "c", "o", "o",
    "r", "d", "1", " ", "v", "e", "c", "2", "(", "f", "r", "a", "c", "t", "(", "a", "_",
    "t", "e", "x", "c", "o", "o", "r", "d", "1", ".", "x", "*", "1", "5", ".", "9", "3",
    "7", "5", ")", "+", "0", ".", "0", "0", "0", "1", ",", "f", "l", "o", "o", "r", "(",
    "a", "_", "t", "e", "x", "c", "o", "o", "r", "d", "1", ".", "x", "*", "1", "5", ".",
    "9", "3", "7", "5", ")", "*", "0", ".", "0", "6", "2", "5", "+", "0", ".", "0", "0",
    "0", "1", ")", "\n", "v", "o", "i", "d", " ", "m", "a", "i", "n"
  >>

\* finder1 (mtbin.rs:61)
needle1 ==
  <<
    "v", "_", "l", "i", "g", "h", "t", "m", "a", "p", "U", "V", " ", "=", " ", "a", "_",
    "t", "e", "x", "c", "o", "o", "r", "d", "1", ";"
  >>

\* finder2 (mtbin.rs:62)
needle2 ==
  <<
    "v", "_", "l", "i", "g", "h", "t", "m", "a", "p", "U", "V", "=", "a", "_", "t", "e",
    "x", "c", "o", "o", "r", "d", "1", ";"
  >>

\* finder3 (mtbin.rs:63)
needle3 ==
  <<
    "#", "d", "e", "f", "i", "n", "e", " ", "a", "_", "t", "e", "x", "c", "o", "o", "r",
    "d", "1", " "
  >>

\* finder_new_beta (mtbin.rs:66)
needle_new_beta ==
  <<
    "v", "e", "c", "2", "(", "2", "5", "6", ".", "0", ",", " ", "4", "0", "9", "6", ".",
    "0", ")"
  >>

----------------------------------------------------------------------------
(* memchr::memmem::Finder::find and replace_bytes *)

Matches(needle, hay, i) ==
  /\ i + Len(needle) - 1 <= Len(hay)
  /\ \A j \in 1..Len(needle) : hay[i + j - 1] = needle[j]

RECURSIVE FindFrom(_, _, _)
FindFrom(needle, hay, i) ==
  IF i + Len(needle) - 1 > Len(hay) THEN 0
  ELSE IF Matches(needle, hay, i) THEN i
  ELSE FindFrom(needle, hay, i + 1)

\* Finder::find: the 1-based offset of the first occurrence, 0 for None
Find(needle, hay) == FindFrom(needle, hay, 1)

\* Vec::splice(sus..sus + len, replace_with)
Splice(codebuf, sus, len, replace_with) ==
  SubSeq(codebuf, 1, sus - 1) \o replace_with \o SubSeq(codebuf, sus + len, Len(codebuf))

\* (mutant) the last occurrence is replaced instead of the first
RECURSIVE FindLastFrom(_, _, _)
FindLastFrom(needle, hay, i) ==
  IF i < 1 THEN 0
  ELSE IF Matches(needle, hay, i) THEN i
  ELSE FindLastFrom(needle, hay, i - 1)

replace_bytes_last(codebuf, pat, replace_with) ==
  LET sus == FindLastFrom(pat, codebuf, Len(codebuf)) IN
    IF sus = 0
    THEN [code |-> codebuf, found |-> FALSE]
    ELSE [code |-> Splice(codebuf, sus, Len(pat), replace_with), found |-> TRUE]

\* replace_bytes: the buffer afterwards, and whether "Pattern not found" was printed
replace_bytes(codebuf, pat, replace_with) ==
  LET sus == Find(pat, codebuf) IN
    IF sus = 0
    THEN [code |-> codebuf, found |-> FALSE]
    ELSE [code |-> Splice(codebuf, sus, Len(pat), replace_with), found |-> TRUE]

----------------------------------------------------------------------------
(* The bgfx sub-blob codec (materialbin::bgfx_shader::BgfxShader), as
   handle_lightmaps uses it.  A raw sub-blob is the encoded shader (code and
   the rest of its fields) followed by whatever bytes trail it: pread(0)
   parses from offset 0 and does not look past the shader, write emits the
   shader alone.  A blob that does not parse makes pread fail. *)

pread(blob) == [code |-> blob.code, rest |-> blob.rest]

write(bgfx) == [valid |-> TRUE, code |-> bgfx.code, rest |-> bgfx.rest, tail |-> <<>>]

----------------------------------------------------------------------------
(* mtbin.rs: handle_lightmaps *)

FixVersions == {"V26_10_20", "V1_21_110"}

ReplaceWith(target_version) ==
  IF target_version = "V26_10_20" THEN replace_26_10_20 ELSE replace_1_21_110

\* (mutant) the already-patched marker is not looked for
SkipsReplacement_no_marker(code) ==
  Find(needle1, code) = 0 /\ Find(needle2, code) = 0

\* the skip condition of lines 77-78
SkipsReplacement(code) ==
  \/ Find(needle3, code) # 0
  \/ (Find(needle1, code) = 0 /\ Find(needle2, code) = 0)

\* lines 81-85: what a skipped shader logs
SkipLog(code, target_version) ==
  IF target_version = "V26_10_20" /\ Find(needle_new_beta, code) # 0
  THEN "info: Shader already has 26.10.20 packing."
  ELSE "warn: Skipping replacement: missing lightmap UV assignment or already patched."

\* the body of the innermost loop (lines 71-93) for one (stage, code) pair
VisitShader(entry, target_version) ==
  IF entry.stage # "Vertex"
  THEN [entry |-> entry, log |-> <<>>, panic |-> FALSE]
  ELSE IF ~entry.bgfx_shader_data.valid
  THEN [entry |-> entry, log |-> <<>>, panic |-> TRUE]
  ELSE
    LET bgfx == pread(entry.bgfx_shader_data) IN
      IF SkipsReplacement(bgfx.code)
      THEN [entry |-> entry, log |-> <<SkipLog(bgfx.code, target_version)>>, panic |-> FALSE]
      ELSE
        LET r == replace_bytes(bgfx.code, pattern, ReplaceWith(target_version)) IN
          [entry |-> [entry EXCEPT !.bgfx_shader_data = write([bgfx EXCEPT !.code = r.code])],
           log   |-> <<"info: autofix is applying lightmap fix...">>
                     \o (IF r.found THEN <<>> ELSE <<"Pattern not found">>),
           panic |-> FALSE]

\* the loops of lines 68-70 from shader i on; passes, variants and shader_codes
\* are laid out in the order the three loops visit them
RECURSIVE VisitFrom(_, _, _, _)
VisitFrom(codes, i, target_version, lg) ==
  IF i > Len(codes) THEN [shader_codes |-> codes, log |-> lg, panic |-> FALSE]
  ELSE
    LET r == VisitShader(codes[i], target_version) IN
      IF r.panic THEN [shader_codes |-> codes, log |-> lg, panic |-> TRUE]
      ELSE VisitFrom([codes EXCEPT ![i] = r.entry], i + 1, target_version, lg \o r.log)

handle_lightmaps(materialbin, target_version) ==
  IF target_version \notin FixVersions
  THEN [material |-> materialbin, log |-> <<"info: processing">>, panic |-> FALSE]
  ELSE
    LET r == VisitFrom(materialbin.shader_codes, 1, target_version, <<"info: processing">>) IN
      [material |-> [materialbin EXCEPT !.shader_codes = r.shader_codes],
       log |-> r.log, panic |-> r.panic]

\* (mutant) the gate forgets the material's name
NeedsLightmapFix_any_name(mat, version) ==
  version = "V1_21_110" \/ version = "V26_10_20"

\* main.rs lines 172-176 and 219-223: the gate in front of handle_lightmaps
NeedsLightmapFix(mat, version) ==
  mat.name = "RenderChunk" /\ (version = "V1_21_110" \/ version = "V26_10_20")

PatchForTarget(mat, version) ==
  IF NeedsLightmapFix(mat, version)
  THEN handle_lightmaps(mat, version)
  ELSE [material |-> mat, log |-> <<>>, panic |-> FALSE]

----------------------------------------------------------------------------
(* The inputs of the patch engine *)

\* a proper prefix of the anchor, so that a match can start inside a failed one
void_ == <<"v", "o", "i", "d", " ">>

Frags == {needle1, needle2, needle3, pattern, needle_new_beta, void_}

RECURSIVE Cat(_)
Cat(parts) == IF parts = <<>> THEN <<>> ELSE Head(parts) \o Cat(Tail(parts))

Texts == {Cat(parts) : parts \in UNION {[1..n -> Frags] : n \in 0..MaxFrags}}

Blob(code, tail) == [valid |-> TRUE, code |-> code, rest |-> "bgfx", tail |-> tail]

BrokenBlob == [valid |-> FALSE, code |-> <<>>, rest |-> "", tail |-> <<"?">>]

FirstShaders ==
  {[stage |-> s, bgfx_shader_data |-> Blob(t, tl)] :
     s \in {"Vertex", "Fragment"}, t \in Texts, tl \in {<<>>, <<"0">>}}

OtherShaders ==
  { [stage |-> "Vertex",   bgfx_shader_data |-> Blob(needle1 \o pattern, <<>>)],
    [stage |-> "Vertex",   bgfx_shader_data |-> BrokenBlob] }

PatchMaterials ==
  {[name |-> n, shader_codes |-> <<a, b>>] :
     n \in {"RenderChunk", "Sky"}, a \in FirstShaders, b \in OtherShaders}

----------------------------------------------------------------------------
(* main.rs: the collaborators of the orchestrator *)

\* materialbin::MinecraftVersion and its Display
MinecraftVersion == {"V1_18_30", "V1_19_60", "V1_20_80", "V1_21_20", "V1_21_110"}

ALL_VERSIONS == MinecraftVersion

to_string(v) ==
  CASE v = "V1_18_30"  -> "1.18.30"
    [] v = "V1_19_60"  -> "1.19.60"
    [] v = "V1_20_80"  -> "1.20.80"
    [] v = "V1_21_20"  -> "1.21.20"
    [] v = "V1_21_110" -> "1.21.110"

\* A file name is its stem and its suffix; str::ends_with is asked only about
\* the suffixes below.
Name(stem, suffix) == [stem |-> stem, suffix |-> suffix]

ends_with(name, suffix) == name.suffix = suffix

\* The bytes of a .material.bin: the binary formats whose layout they parse
\* under, the material they decode to, and what CompiledMaterialDefinition::write
\* answers for that material ("Ok", "Compat" for WriteError::Compat, "Other"
\* for any other WriteError).
MaterialBytes(parses, mat, wr) == [parses |-> parses, material |-> mat, write |-> wr]

\* main.rs lines 265-274
read_material(data) ==
  IF \E version \in ALL_VERSIONS : version \in data.parses
  THEN [ok |-> TRUE, material |-> data.material]
  ELSE [ok |-> FALSE, material |-> data.material]

\* what material.write(sink, version) puts into the sink when it succeeds
Encoded(mat, version) == MaterialBytes({version}, mat, "Ok")

Absent == [kind |-> "absent"]
Empty == [kind |-> "empty"]
Partial == [kind |-> "partial"]
MaterialFile(data) == [kind |-> "material", data |-> data]
ZipFile(entries, finished) == [kind |-> "zip", entries |-> entries, finished |-> finished]

----------------------------------------------------------------------------
(* main.rs: main, file_update, zip_update *)

\* line 65
target_mversion(o) ==
  IF o.target_version = "None" THEN "V26_10_20" ELSE o.target_version

\* line 68
binary_mcversion(o) == as_version(target_mversion(o))

\* lines 150-159, on a name that ends with the postfix
update_filename(filename, version, postfix) ==
  Name(filename.stem \o <<"_", to_string(version)>>, postfix)

\* lines 81-88 and 110-118
output_filename(o) ==
  IF o.output # <<>> THEN o.output[1]
  ELSE IF ends_with(o.file, ".material.bin") THEN o.file
  ELSE update_filename(o.file, binary_mcversion(o), o.file.suffix)

\* lines 139-148 and 280-293: what the scratch file holds after `bytes` went
\* through the ShrodingerOutput
sink_write(dissapear, bytes) == IF dissapear THEN Empty ELSE bytes

\* (mutant) the final destination is written in a dry run too
promote_always(files, o, tmp) == [files EXCEPT ![output_filename(o)] = tmp]

\* lines 96-100 and 130-134
promote(files, o, tmp) ==
  IF ~o.yeet THEN [files EXCEPT ![output_filename(o)] = tmp] ELSE files

\* lines 162-181
file_update(data, version) ==
  LET m == read_material(data) IN
    IF ~m.ok THEN [result |-> "Err", written |-> Empty]
    ELSE
      LET p == PatchForTarget(m.material, version) IN
        IF p.panic THEN [result |-> "Panic", written |-> Empty]
        ELSE IF data.write # "Ok" THEN [result |-> "Err", written |-> Partial]
        ELSE [result |-> "Ok",
              written |-> MaterialFile(Encoded(p.material, as_version(version)))]

\* an entry of the output archive written by start_file + material.write
Written(name, bytes, level) ==
  [name |-> name, raw |-> FALSE, data |-> bytes, compression_level |-> level]

\* (mutant) a material that does not decode is skipped
zip_entry_skip_invalid(file, version, level, zs) ==
  LET bin_ver == as_version(version) IN
    IF ~ends_with(file.name, ".material.bin")
    THEN [result |-> "Ok", zs |-> [zs EXCEPT !.output_zip = Append(@, file)]]
    ELSE
      LET m == read_material(file.data) IN
        IF ~m.ok THEN [result |-> "Ok", zs |-> zs]
        ELSE
          LET p == PatchForTarget(m.material, version) IN
            IF p.panic THEN [result |-> "Panic", zs |-> zs]
            ELSE IF file.data.write = "Ok"
            THEN [result |-> "Ok",
                  zs |-> [zs EXCEPT
                            !.output_zip = Append(@, Written(file.name, Encoded(p.material, bin_ver), level)),
                            !.translated_shaders = @ + 1]]
            ELSE IF file.data.write = "Compat"
            THEN [result |-> "Ok", zs |-> [zs EXCEPT !.warnings = @ + 1]]
            ELSE [result |-> "Err", zs |-> zs]

\* (mutant) a pass-through entry is written again with the configured level
zip_entry_recompress(file, version, level, zs) ==
  LET bin_ver == as_version(version) IN
    IF ~ends_with(file.name, ".material.bin")
    THEN [result |-> "Ok",
          zs |-> [zs EXCEPT !.output_zip =
                    Append(@, [file EXCEPT !.compression_level = level])]]
    ELSE
      LET m == read_material(file.data) IN
        IF ~m.ok THEN [result |-> "Err", zs |-> zs]
        ELSE
          LET p == PatchForTarget(m.material, version) IN
            IF p.panic THEN [result |-> "Panic", zs |-> zs]
            ELSE IF file.data.write = "Ok"
            THEN [result |-> "Ok",
                  zs |-> [zs EXCEPT
                            !.output_zip = Append(@, Written(file.name, Encoded(p.material, bin_ver), level)),
                            !.translated_shaders = @ + 1]]
            ELSE IF file.data.write = "Compat"
            THEN [result |-> "Ok", zs |-> [zs EXCEPT !.warnings = @ + 1]]
            ELSE [result |-> "Err", zs |-> zs]

\* (mutant) the optimistic decrement of line 241 is missing
zip_entry_no_decrement(file, version, level, zs) ==
  LET bin_ver == as_version(version) IN
    IF ~ends_with(file.name, ".material.bin")
    THEN [result |-> "Ok", zs |-> [zs EXCEPT !.output_zip = Append(@, file)]]
    ELSE
      LET m == read_material(file.data) IN
        IF ~m.ok THEN [result |-> "Err", zs |-> zs]
        ELSE
          LET p == PatchForTarget(m.material, version) IN
            IF p.panic THEN [result |-> "Panic", zs |-> zs]
            ELSE IF file.data.write = "Ok"
            THEN [result |-> "Ok",
                  zs |-> [zs EXCEPT
                            !.output_zip = Append(@, Written(file.name, Encoded(p.material, bin_ver), level)),
                            !.translated_shaders = @ + 1]]
            ELSE IF file.data.write = "Compat"
            THEN [result |-> "Ok",
                  zs |-> [zs EXCEPT !.warnings = @ + 1, !.translated_shaders = @ + 1]]
            ELSE [result |-> "Err", zs |-> zs]

\* lines 203-248: one iteration of zip_update's loop, on the writer's entries
\* and the two counters
zip_entry(file, version, level, zs) ==
  LET bin_ver == as_version(version) IN
    IF ~ends_with(file.name, ".material.bin")
    THEN \* raw_copy_file; continue
         [result |-> "Ok", zs |-> [zs EXCEPT !.output_zip = Append(@, file)]]
    ELSE
      LET m == read_material(file.data) IN
        IF ~m.ok THEN [result |-> "Err", zs |-> zs]
        ELSE
          LET p == PatchForTarget(m.material, version) IN
            IF p.panic THEN [result |-> "Panic", zs |-> zs]
            ELSE
              LET started == Append(zs.output_zip,
                                    Written(file.name, Encoded(p.material, bin_ver), level))
              IN
                IF file.data.write = "Ok"
                THEN [result |-> "Ok",
                      zs |-> [zs EXCEPT !.output_zip = started,
                                        !.translated_shaders = @ + 1]]
                ELSE IF file.data.write = "Compat"
                THEN \* lines 241-242, abort_file, line 248
                     [result |-> "Ok",
                      zs |-> [zs EXCEPT
                                !.output_zip = SubSeq(started, 1, Len(started) - 1),
                                !.warnings = @ + 1,
                                !.translated_shaders = (@ - 1) + 1]]
                ELSE [result |-> "Err",
                      zs |-> [zs EXCEPT !.output_zip =
                                Append(@, Written(file.name, Partial, level))]]

\* lines 251-261
Report(warn, ported, bin_ver) ==
  [printed  |-> TRUE,
   warnings |-> IF warn # 0 THEN <<warn>> ELSE <<>>,
   ported   |-> ported,
   version  |-> to_string(bin_ver)]

NoReport == [printed |-> FALSE]

----------------------------------------------------------------------------
(* The inputs of main *)

RenderChunkMaterial ==
  [name |-> "RenderChunk",
   shader_codes |-> << [stage |-> "Vertex",   bgfx_shader_data |-> Blob(needle1 \o pattern, <<>>)],
                       [stage |-> "Fragment", bgfx_shader_data |-> Blob(pattern, <<>>)] >>]

SkyMaterial ==
  [name |-> "Sky",
   shader_codes |-> << [stage |-> "Vertex", bgfx_shader_data |-> Blob(needle2 \o pattern, <<>>)] >>]

CorruptMaterial ==
  [name |-> "RenderChunk",
   shader_codes |-> << [stage |-> "Vertex", bgfx_shader_data |-> BrokenBlob] >>]

FileInputs ==
  {MaterialBytes({"V1_21_20"}, RenderChunkMaterial, w) : w \in {"Ok", "Compat", "Other"}}
  \cup { MaterialBytes({"V1_19_60", "V1_18_30"}, SkyMaterial, "Ok"),
         MaterialBytes({"V1_21_110"}, CorruptMaterial, "Ok"),
         MaterialBytes({}, SkyMaterial, "Ok") }

RawEntry(name, bytes, method) ==
  [name |-> name, raw |-> TRUE, data |-> bytes, compression_level |-> method]

\* the entries an input archive is made of; an archive holds a name once
ZipEntries ==
  { RawEntry(Name(<<"texture">>, ".png"), "png", <<0>>),
    RawEntry(Name(<<"manifest">>, ".json"), "json", <<6>>),
    RawEntry(Name(<<"RenderChunk">>, ".material.bin"),
             MaterialBytes({"V1_21_20", "V1_20_80"}, RenderChunkMaterial, "Ok"), <<6>>),
    RawEntry(Name(<<"Sky">>, ".material.bin"),
             MaterialBytes({"V1_21_110"}, SkyMaterial, "Compat"), <<6>>),
    RawEntry(Name(<<"Water">>, ".material.bin"),
             MaterialBytes({"V1_21_110"}, RenderChunkMaterial, "Compat"), <<6>>),
    RawEntry(Name(<<"Broken">>, ".material.bin"),
             MaterialBytes({}, SkyMaterial, "Ok"), <<6>>),
    RawEntry(Name(<<"Clouds">>, ".material.bin"),
             MaterialBytes({"V1_21_20"}, SkyMaterial, "Other"), <<6>>) }

Archives ==
  {es \in UNION {[1..n -> ZipEntries] : n \in 0..MaxEntries} :
     \A i, j \in DOMAIN es : i # j => es[i].name # es[j].name}

Suffixes == {".material.bin", ".zip", ".mcpack", ".txt"}

AllOptions ==
  [file : {Name(<<"in">>, sfx) : sfx \in Suffixes},
   zip_compression : {<<>>, <<9>>},
   yeet : BOOLEAN,
   target_version : {"None"} \cup MVersion,
   output : {<<>>, <<Name(<<"out">>, ".bin")>>}]

\* what the input path may hold, by its suffix; Absent: the path does not exist
InputsFor(o) ==
  {Absent} \cup
  (IF ends_with(o.file, ".zip") \/ ends_with(o.file, ".mcpack")
   THEN {ZipFile(es, TRUE) : es \in Archives}
   ELSE {MaterialFile(d) : d \in FileInputs})

Paths ==
  {Name(<<"in">>, sfx) : sfx \in Suffixes} \cup {Name(<<"out">>, ".bin")}
  \cup {update_filename(Name(<<"in">>, sfx), v, sfx) :
          sfx \in {".zip", ".mcpack"}, v \in MinecraftVersion}

InitialFs(o, content) == [p \in Paths |-> IF p = o.file THEN content ELSE Absent]

----------------------------------------------------------------------------
(* main as a state machine *)

PatchIdle ==
  /\ target = "V26_10_20"
  /\ material = SkyMaterial
  /\ prev = SkyMaterial
  /\ calls = 0
  /\ via = "none"
  /\ panicked = FALSE
  /\ log = <<>>

MainIdle ==
  /\ opts = [file |-> Name(<<"in">>, ".txt"), zip_compression |-> <<>>, yeet |-> TRUE,
             target_version |-> "None", output |-> <<>>]
  /\ input = Absent
  /\ fs = InitialFs(opts, input)
  /\ dest_opened = FALSE
  /\ pc = "idle"
  /\ exit = "Running"
  /\ tmp_file = Empty
  /\ index = 0
  /\ translated_shaders = 0
  /\ warnings = 0
  /\ output_zip = <<>>
  /\ report = NoReport

Init ==
  /\ PatchIdle
  /\ opts \in AllOptions
  /\ input \in InputsFor(opts)
  /\ fs = InitialFs(opts, input)
  /\ dest_opened = FALSE
  /\ pc = "open"
  /\ exit = "Running"
  /\ tmp_file = Empty
  /\ index = 0
  /\ translated_shaders = 0
  /\ warnings = 0
  /\ output_zip = <<>>
  /\ report = NoReport

zipVars == <<index, translated_shaders, warnings, output_zip, report>>

\* lines 77-78: File::open fails
OpenFails ==
  /\ pc = "open"
  /\ fs[opts.file] = Absent
  /\ pc' = "done" /\ exit' = "Err"
  /\ UNCHANGED <<patchVars, opts, input, fs, dest_opened, tmp_file, zipVars>>

\* lines 80-94: the single-asset branch up to the return of file_update
FileUpdate ==
  /\ pc = "open"
  /\ fs[opts.file] # Absent
  /\ ends_with(opts.file, ".material.bin")
  /\ LET r == file_update(fs[opts.file].data, target_mversion(opts)) IN
       /\ tmp_file' = sink_write(opts.yeet, r.written)
       /\ IF r.result = "Ok"
          THEN pc' = "file_written" /\ exit' = exit
          ELSE pc' = "done" /\ exit' = r.result
  /\ UNCHANGED <<patchVars, opts, input, fs, dest_opened, zipVars>>

\* lines 96-101
FilePromote ==
  /\ pc = "file_written"
  /\ fs' = promote(fs, opts, tmp_file)
  /\ dest_opened' = ~opts.yeet
  /\ pc' = "done" /\ exit' = "Ok"
  /\ UNCHANGED <<patchVars, opts, input, tmp_file, zipVars>>

\* lines 103-121 and 194-200: the archive branch up to the loop of zip_update
ZipOpen ==
  /\ pc = "open"
  /\ fs[opts.file] # Absent
  /\ ~ends_with(opts.file, ".material.bin")
  /\ ends_with(opts.file, ".zip") \/ ends_with(opts.file, ".mcpack")
  /\ pc' = "zip_loop"
  /\ index' = 0 /\ translated_shaders' = 0 /\ warnings' = 0 /\ output_zip' = <<>>
  /\ tmp_file' = sink_write(opts.yeet, ZipFile(<<>>, FALSE))
  /\ UNCHANGED <<patchVars, opts, input, fs, dest_opened, exit, report>>

\* lines 202-249: one iteration of the loop
ZipEntry ==
  /\ pc = "zip_loop"
  /\ index < Len(fs[opts.file].entries)
  /\ LET r == zip_entry(fs[opts.file].entries[index + 1], target_mversion(opts),
                        opts.zip_compression,
                        [output_zip |-> output_zip,
                         translated_shaders |-> translated_shaders,
                         warnings |-> warnings])
     IN
       /\ output_zip' = r.zs.output_zip
       /\ translated_shaders' = r.zs.translated_shaders
       /\ warnings' = r.zs.warnings
       /\ tmp_file' = sink_write(opts.yeet, ZipFile(r.zs.output_zip, FALSE))
       /\ IF r.result = "Ok"
          THEN index' = index + 1 /\ pc' = pc /\ exit' = exit
          ELSE index' = index /\ pc' = "done" /\ exit' = r.result
  /\ UNCHANGED <<patchVars, opts, input, fs, dest_opened, report>>

\* lines 250-262: finish and the report
ZipFinish ==
  /\ pc = "zip_loop"
  /\ index = Len(fs[opts.file].entries)
  /\ tmp_file' = sink_write(opts.yeet, ZipFile(output_zip, TRUE))
  /\ report' = Report(warnings, translated_shaders, as_version(target_mversion(opts)))
  /\ pc' = "zip_written"
  /\ UNCHANGED <<patchVars, opts, input, fs, dest_opened, exit, index,
                 translated_shaders, warnings, output_zip>>

\* lines 130-136
ZipPromote ==
  /\ pc = "zip_written"
  /\ fs' = promote(fs, opts, tmp_file)
  /\ dest_opened' = ~opts.yeet
  /\ pc' = "done" /\ exit' = "Ok"
  /\ UNCHANGED <<patchVars, opts, input, tmp_file, zipVars>>

\* lines 80, 103 and 136: neither branch is taken
NoBranch ==
  /\ pc = "open"
  /\ fs[opts.file] # Absent
  /\ ~ends_with(opts.file, ".material.bin")
  /\ ~(ends_with(opts.file, ".zip") \/ ends_with(opts.file, ".mcpack"))
  /\ pc' = "done" /\ exit' = "Ok"
  /\ UNCHANGED <<patchVars, opts, input, fs, dest_opened, tmp_file, zipVars>>

Next ==
  \/ OpenFails
  \/ FileUpdate
  \/ FilePromote
  \/ ZipOpen
  \/ ZipEntry
  \/ ZipFinish
  \/ ZipPromote
  \/ NoBranch

Spec == Init /\ [][Next]_vars

----------------------------------------------------------------------------
(* The patch engine as a state machine: handle_lightmaps is called on a
   material, directly (twice at most) or once through the pipeline's gate. *)

PatchInit ==
  /\ target \in MVersion
  /\ material \in PatchMaterials
  /\ prev = material
  /\ calls = 0
  /\ via = "none"
  /\ panicked = FALSE
  /\ log = <<>>
  /\ MainIdle

CallHandleLightmaps ==
  /\ calls < 2 /\ via # "gated" /\ ~panicked
  /\ LET r == handle_lightmaps(material, target) IN
       /\ material' = r.material
       /\ log' = r.log
       /\ panicked' = r.panic
  /\ prev' = material
  /\ calls' = calls + 1
  /\ via' = "direct"
  /\ UNCHANGED <<target, mainVars>>

CallPipeline ==
  /\ calls = 0
  /\ LET r == PatchForTarget(material, target) IN
       /\ material' = r.material
       /\ log' = r.log
       /\ panicked' = r.panic
  /\ prev' = material
  /\ calls' = 1
  /\ via' = "gated"
  /\ UNCHANGED <<target, mainVars>>

PatchNext == CallHandleLightmaps \/ CallPipeline

SpecPatch == PatchInit /\ [][PatchNext]_vars

----------------------------------------------------------------------------
(* Properties of the patch engine.  The substring tests below are stated on
   their own (SubSeq), not through Find. *)

\* the macro text the specification gives for target 26.10.20
Macro_26_10_20 ==
  <<
    "\n", "#", "d", "e", "f", "i", "n", "e", " ", "a", "_", "t", "e", "x", "c", "o", "o",
    "r", "d", "1", " ", "f", "r", "a", "c", "t", "(", "a", "_", "t", "e", "x", "c", "o",
    "o", "r", "d", "1", ".", "y", " ", "*", " ", "v", "e", "c", "2", "(", "2", "5", "6",
    ".", "0", ",", " ", "4", "0", "9", "6", ".", "0", ")", ")", "\n"
  >>

\* the macro text the specification gives for target 1.21.110
Macro_1_21_110 ==
  <<
    "\n", "#", "d", "e", "f", "i", "n", "e", " ", "a", "_", "t", "e", "x", "c", "o", "o",
    "r", "d", "1", " ", "v", "e", "c", "2", "(", "f", "r", "a", "c", "t", "(", "a", "_",
    "t", "e", "x", "c", "o", "o", "r", "d", "1", ".", "x", "*", "1", "5", ".", "9", "3",
    "7", "5", ")", "+", "0", ".", "0", "0", "0", "1", ",", "f", "l", "o", "o", "r", "(",
    "a", "_", "t", "e", "x", "c", "o", "o", "r", "d", "1", ".", "x", "*", "1", "5", ".",
    "9", "3", "7", "5", ")", "*", "0", ".", "0", "6", "2", "5", "+", "0", ".", "0", "0",
    "0", "1", ")", "\n"
  >>

OccursAt(needle, hay, i) ==
  i \in 1..(Len(hay) - Len(needle) + 1) /\ SubSeq(hay, i, i + Len(needle) - 1) = needle

Contains(needle, hay) == \E i \in 1..Len(hay) : OccursAt(needle, hay, i)

Occurrences(needle, hay) == {i \in 1..Len(hay) : OccursAt(needle, hay, i)}

FirstOccurrence(needle, hay) ==
  CHOOSE i \in Occurrences(needle, hay) : \A j \in Occurrences(needle, hay) : i <= j

SourceText(entry) == entry.bgfx_shader_data.code

HasAssignment(text) == Contains(needle1, text) \/ Contains(needle2, text)

HasMarker(text) == Contains(needle3, text)

\* the shader reaches the patch step and the anchor is there
Patchable(entry) ==
  /\ entry.stage = "Vertex"
  /\ entry.bgfx_shader_data.valid
  /\ ~HasMarker(SourceText(entry))
  /\ HasAssignment(SourceText(entry))
  /\ Contains(pattern, SourceText(entry))

MacroText(target_version) ==
  IF target_version = "V26_10_20" THEN Macro_26_10_20 ELSE Macro_1_21_110

Shaders == DOMAIN material.shader_codes

DirectCall == via = "direct" /\ ~panicked

\* C1: a vertex shader that reaches the patch step with target 26.10.20 or
\* 1.21.110 ends as P ++ M ++ S: P the text before the first `void main`, S the
\* text from that first occurrence on, M the target's macro text.
C1_PatchIsPrefixMacroSuffix ==
  (DirectCall /\ calls = 1 /\ target \in FixVersions) =>
    \A k \in Shaders :
      Patchable(prev.shader_codes[k]) =>
        LET old == SourceText(prev.shader_codes[k])
            at  == FirstOccurrence(pattern, old)
        IN SourceText(material.shader_codes[k])
             = SubSeq(old, 1, at - 1) \o MacroText(target) \o SubSeq(old, at, Len(old))

\* a patched shader whose text held the anchor twice, the first not at the start
C1_Witness ==
  /\ DirectCall /\ calls = 1 /\ target \in FixVersions
  /\ \E k \in Shaders :
       /\ Patchable(prev.shader_codes[k])
       /\ Cardinality(Occurrences(pattern, SourceText(prev.shader_codes[k]))) = 2
       /\ FirstOccurrence(pattern, SourceText(prev.shader_codes[k])) > 1

\* C2: through the pipeline's gate, a shader's source text changes only if the
\* material is RenderChunk, the target is 1.21.110 or 26.10.20, the stage is
\* Vertex, the marker is absent, an assignment form is present and `void main`
\* is present.
C2_TextChangesOnlyWhenGateAndChecksPass ==
  (via = "gated" /\ calls = 1) =>
    \A k \in Shaders :
      SourceText(material.shader_codes[k]) # SourceText(prev.shader_codes[k]) =>
        /\ prev.name = "RenderChunk"
        /\ target \in {"V1_21_110", "V26_10_20"}
        /\ prev.shader_codes[k].stage = "Vertex"
        /\ ~HasMarker(SourceText(prev.shader_codes[k]))
        /\ HasAssignment(SourceText(prev.shader_codes[k]))
        /\ Contains(pattern, SourceText(prev.shader_codes[k]))

\* the pipeline did change a shader's text
C2_Witness ==
  /\ via = "gated" /\ calls = 1
  /\ \E k \in Shaders :
       SourceText(material.shader_codes[k]) # SourceText(prev.shader_codes[k])

\* C4: a second call of handle_lightmaps with the same target leaves the
\* material (every source text and every rawSubBlob) as the first call left it.
C4_SecondCallChangesNothing ==
  (DirectCall /\ calls = 2) => material = prev

\* the second call met a shader the first call had patched
C4_Witness ==
  /\ DirectCall /\ calls = 2
  /\ \E k \in Shaders :
       Contains(MacroText(target), SourceText(material.shader_codes[k]))

\* C5: handle_lightmaps leaves rawSubBlob as it was for every shader that is
\* not successfully patched (non-vertex, skipped, or eligible without anchor).
C5_UnpatchedBlobUntouched ==
  (DirectCall /\ calls = 1) =>
    \A k \in Shaders :
      ~(target \in FixVersions /\ Patchable(prev.shader_codes[k])) =>
        material.shader_codes[k].bgfx_shader_data = prev.shader_codes[k].bgfx_shader_data

----------------------------------------------------------------------------
(* Properties of the orchestrator *)

ZipRun == input # Absent /\ pc \in {"zip_loop", "zip_written", "done"} /\ input.kind = "zip"

IsMaterialEntry(e) == ends_with(e.name, ".material.bin")

NotMaterialEntry(e) == ~IsMaterialEntry(e)

IsRawCopy(e) == e.raw

Decodes(e) == e.data.parses \cap ALL_VERSIONS # {}

MaterialEntries(es) == {i \in DOMAIN es : IsMaterialEntry(es[i])}

CompatEntries(es) == {i \in MaterialEntries(es) : es[i].data.write = "Compat"}

OutputsNamed(name) == {j \in DOMAIN output_zip : output_zip[j].name = name}

Destination == fs[output_filename(opts)]

\* C3: an archive whose N material entries all decode, K of them failing to
\* encode with a compatibility error and the others encoding, completes
\* successfully, reports N-K ported materials and K warnings, and its output
\* holds each of the N-K under its name and none of the K.
C3_CompatSkipAccounting ==
  (ZipRun /\ report.printed) =>
    LET es == input.entries
        N  == Cardinality(MaterialEntries(es))
        K  == Cardinality(CompatEntries(es))
    IN
      (\A i \in MaterialEntries(es) : Decodes(es[i]) /\ es[i].data.write \in {"Ok", "Compat"}) =>
        /\ report.ported = N - K
        /\ warnings = K
        /\ report.warnings = (IF K = 0 THEN <<>> ELSE <<K>>)
        /\ \A i \in MaterialEntries(es) \ CompatEntries(es) :
             /\ Cardinality(OutputsNamed(es[i].name)) = 1
             /\ \A j \in OutputsNamed(es[i].name) : ~output_zip[j].raw
        /\ \A i \in CompatEntries(es) : OutputsNamed(es[i].name) = {}
        /\ pc = "done" => exit = "Ok"
        /\ (pc = "done" /\ ~opts.yeet) => Destination = ZipFile(output_zip, TRUE)

\* a finished run whose first entry failed with a compatibility error and
\* which ported another one
C3_Witness ==
  /\ ZipRun /\ report.printed /\ exit = "Ok"
  /\ Len(input.entries) >= 2
  /\ 1 \in CompatEntries(input.entries)
  /\ report.ported >= 1
  /\ report.warnings # <<>>

\* C6: a material entry of the archive that decodes under no version makes
\* zip_update return an error at that entry: it is not skipped, no later entry
\* is dealt with, the writer is not finished and nothing is reported.
C6_DecodeFailureAbortsArchive ==
  ZipRun =>
    \A i \in DOMAIN input.entries :
      (IsMaterialEntry(input.entries[i]) /\ ~Decodes(input.entries[i])) =>
        /\ index < i
        /\ Len(output_zip) < i
        /\ ~report.printed
        /\ pc # "zip_written"
        /\ tmp_file.kind = "zip" => ~tmp_file.finished
        /\ exit # "Ok"
        /\ (pc = "done" /\ index = i - 1) => exit = "Err"

\* the run stopped at an undecodable entry with entries before and after it
C6_Witness ==
  /\ ZipRun /\ pc = "done" /\ exit = "Err"
  /\ index >= 1 /\ index + 1 < Len(input.entries)
  /\ IsMaterialEntry(input.entries[index + 1])
  /\ ~Decodes(input.entries[index + 1])
  /\ Len(output_zip) = index

\* C7: the final destination is created only after the pipeline returned
\* success and only without --yeet; a run that ends in an error or a panic,
\* and every dry run, leaves the file system as it was.
C7_DestinationOnlyAfterSuccess ==
  pc # "idle" =>
    /\ dest_opened =>
         /\ exit = "Ok" /\ ~opts.yeet
         /\ tmp_file.kind \in {"material", "zip"}
         /\ tmp_file.kind = "zip" => tmp_file.finished
         /\ Destination = tmp_file
    /\ ~dest_opened => fs = InitialFs(opts, input)
    /\ exit \in {"Err", "Panic"} => (~dest_opened /\ fs[opts.file] = input)
    /\ opts.yeet => ~dest_opened

\* an encode failure of a single asset that was to be overwritten in place
C7_Witness ==
  /\ pc = "done" /\ exit = "Err"
  /\ ends_with(opts.file, ".material.bin") /\ opts.output = <<>> /\ ~opts.yeet
  /\ tmp_file = Partial
  /\ fs[opts.file] = input

\* C8: the entries that are not materials are copied raw, each once, with
\* their name, bytes and compression as in the input and in the input's order;
\* none of them is written through start_file; a completed run has them all.
C8_PassThroughEntries ==
  ZipRun =>
    /\ SelectSeq(output_zip, IsRawCopy)
         = SelectSeq(SubSeq(input.entries, 1, index), NotMaterialEntry)
    /\ \A j \in DOMAIN output_zip : ~output_zip[j].raw => IsMaterialEntry(output_zip[j])
    /\ exit = "Ok" =>
         /\ index = Len(input.entries)
         /\ ~opts.yeet => Destination = ZipFile(output_zip, TRUE)

\* a completed run with a compression level configured that copied two
\* entries and wrote a material between them
C8_Witness ==
  /\ ZipRun /\ exit = "Ok" /\ opts.zip_compression # <<>>
  /\ Len(output_zip) = 3
  /\ output_zip[1].raw /\ ~output_zip[2].raw /\ output_zip[3].raw
  /\ output_zip[1].compression_level # output_zip[3].compression_level

\* C9: an input whose name ends with none of the three suffixes makes main end
\* with an error; main succeeds only if one of the two pipelines ran.
C9_MissingExtensionIsFatal ==
  (pc = "done" /\ exit = "Ok") =>
    \/ ends_with(opts.file, ".material.bin")
    \/ ends_with(opts.file, ".zip")
    \/ ends_with(opts.file, ".mcpack")

\* the binary format that bears a logical version's number
NamedFormat(v) == IF v = "V26_10_20" THEN "V1_21_110" ELSE v

Rank(v) ==
  CASE v = "V1_18_30" -> 1 [] v = "V1_19_60" -> 2 [] v = "V1_20_80" -> 3
    [] v = "V1_21_20" -> 4 [] v = "V1_21_110" -> 5 [] v = "V26_10_20" -> 6

\* C10: as_version maps each logical version to the binary format of the same
\* number (26.10.20 to 1.21.110), keeps the order of versions, and the format
\* material.write is given is the one the user named.
C10_BinaryFormatIsTheNamedOne ==
  pc \in {"file_written", "zip_loop", "zip_written"} =>
    /\ binary_mcversion(opts) = NamedFormat(target_mversion(opts))
    /\ \A v \in MVersion :
         Rank(v) <= Rank(target_mversion(opts)) =>
           Rank(as_version(v)) <= Rank(binary_mcversion(opts))
    /\ (pc = "file_written" /\ ~opts.yeet) =>
         tmp_file.data.parses = {NamedFormat(target_mversion(opts))}
    /\ ZipRun =>
         \A j \in DOMAIN output_zip :
           (~output_zip[j].raw /\ output_zip[j].data # Partial) =>
             output_zip[j].data.parses = {NamedFormat(target_mversion(opts))}

====
